---- MODULE Spec2Model ----
(***************************************************************************)
(* Crazy Eights (App component): the game state held by useState, the     *)
(* handlers that update it (initGame, handleDraw, playCard,               *)
(* handleSuitSelect), the AI effect with its 1500 ms timer and the        *)
(* 1000 ms timer of an empty-deck draw.                                   *)
(*                                                                         *)
(* A handler is one step: the updater functions it queues with            *)
(* setGameState are applied in order to the committed state, and the      *)
(* render and the effects that follow belong to the step.  A click        *)
(* handler closes over the committed state (React renders between two     *)
(* events); the callback of the AI timer closes over the state of the     *)
(* render that set the timer.                                             *)
(*                                                                         *)
(* gameState     the GameState record of useState                         *)
(* pendingSkips  the setTimeout callbacks of empty-deck draws (line 224)  *)
(*               that have not fired yet; nothing ever clears them        *)
(* aiTimer       the timer of the AI effect: whether one is pending and   *)
(*               the state of the render its callback closed over         *)
(* lastOp        the handler or callback that ran last and its argument   *)
(***************************************************************************)
EXTENDS Integers, Sequences, FiniteSets, TLC

VARIABLES gameState, pendingSkips, aiTimer, lastOp

vars == <<gameState, pendingSkips, aiTimer, lastOp>>

(* ------------------------------ bounds --------------------------------- *)

\* Spec plays a scaled game: a deck of NumRanks of the 13 ranks, HandSize
\* cards dealt to each side (SpecFull plays the 52 cards, 8 to each side)
NumRanks == 3
HandSize == 3
\* the shuffles drawn by initGame: strides 1..MaxStride, offsets 0..MaxOffset
\* in Spec and 0..MaxFullOffset in SpecFull
MaxStride == 3
MaxOffset == 2
MaxFullOffset == 4
\* how many empty-deck draw timers may be pending at once
MaxPendingSkips == 2
\* SpecFull follows a game of the 52 cards for this many moved cards
MaxFullMoves == 3

(* --------------------------- types.ts ---------------------------------- *)

NULL == "null"

Suit == {"hearts", "diamonds", "clubs", "spades"}

\* the order in which the suits are enumerated (Object.keys of suitCounts)
SUITS == <<"hearts", "diamonds", "clubs", "spades">>

RANKS == <<"A", "2", "3", "4", "5", "6", "7", "8", "9", "10", "J", "Q", "K">>

\* the cards dealt to each side: fullDeck.splice(0, 8)
DealSize == 8

(* --------------------------- helpers ----------------------------------- *)

Min(a, b) == IF a < b THEN a ELSE b

\* hand.filter(c => c.id !== card.id)
withoutCard(hand, card) == SelectSeq(hand, LAMBDA c : c.id # card.id)

\* cards.findIndex(c => c.rank !== '8'), 1-based; 0 stands for -1
findNonEight(cards) ==
  LET hits == {i \in 1..Len(cards) : cards[i].rank # "8"}
  IN IF hits = {} THEN 0 ELSE CHOOSE i \in hits : \A j \in hits : i <= j

RemoveAt(s, i) == SubSeq(s, 1, i - 1) \o SubSeq(s, i + 1, Len(s))

Range(s) == {s[i] : i \in 1..Len(s)}

RECURSIVE Gcd(_, _)
Gcd(a, b) == IF b = 0 THEN a ELSE Gcd(b, a % b)

(* ------------------------- deck builder -------------------------------- *)

\* the ranks of the scaled deck: a window of RANKS that holds the "8"
DeckRanks ==
  IF NumRanks <= 8 THEN SubSeq(RANKS, 9 - NumRanks, 8)
  ELSE SubSeq(RANKS, 1, Min(NumRanks, 13))

\* createDeck(): suits x ranks, suit-major, each card with a unique id
createDeck(ranks) ==
  [i \in 1..(Len(SUITS) * Len(ranks)) |->
     [id   |-> i,
      suit |-> SUITS[((i - 1) \div Len(ranks)) + 1],
      rank |-> ranks[((i - 1) % Len(ranks)) + 1]]]

\* the outcomes of the random shuffle of n cards the model draws from
ShuffleSeeds(n, maxOffset) ==
  {<<a, b>> \in (1..MaxStride) \X (0..maxOffset) : Gcd(a, n) = 1}

\* shuffleDeck(deck): a permutation of deck, here the one seed names
shuffleDeck(d, seed) ==
  [i \in 1..Len(d) |-> d[((seed[1] * (i - 1) + seed[2]) % Len(d)) + 1]]

(* -------------------------- game state --------------------------------- *)

\* useState<GameState>({...})
InitialGameState ==
  [deck        |-> <<>>,
   discardPile |-> <<>>,
   playerHand  |-> <<>>,
   aiHand      |-> <<>>,
   currentTurn |-> "player",
   status      |-> "waiting",
   winner      |-> NULL,
   activeSuit  |-> NULL]

\* no AI timer is set
NoTimer == [pending |-> FALSE, closure |-> InitialGameState]

\* the handler that ran last, with the card or suit it was given and, for
\* isValidMove, what it returned
Op(name, cardId, suit) ==
  [op |-> name, card |-> cardId, suit |-> suit, ret |-> NULL]

NoOp == Op("none", 0, NULL)

Init ==
  /\ gameState = InitialGameState
  /\ pendingSkips = 0
  /\ aiTimer = NoTimer
  /\ lastOp = NoOp

\* initGame taking the first card after the hands whatever its rank
initGame_firstCard(fullDeck, n) ==
  LET playerHand == SubSeq(fullDeck, 1, Min(n, Len(fullDeck)))
      rest1      == SubSeq(fullDeck, Len(playerHand) + 1, Len(fullDeck))
      aiHand     == SubSeq(rest1, 1, Min(n, Len(rest1)))
      rest2      == SubSeq(rest1, Len(aiHand) + 1, Len(rest1))
      discardPile == <<rest2[1]>>
  IN [deck        |-> RemoveAt(rest2, 1),
      discardPile |-> discardPile,
      playerHand  |-> playerHand,
      aiHand      |-> aiHand,
      currentTurn |-> "player",
      status      |-> "playing",
      winner      |-> NULL,
      activeSuit  |-> discardPile[1].suit]

\* initGame with the shuffled deck fullDeck, n cards to each side (8)
initGame(fullDeck, n) ==
  LET playerHand == SubSeq(fullDeck, 1, Min(n, Len(fullDeck)))
      rest1      == SubSeq(fullDeck, Len(playerHand) + 1, Len(fullDeck))
      aiHand     == SubSeq(rest1, 1, Min(n, Len(rest1)))
      rest2      == SubSeq(rest1, Len(aiHand) + 1, Len(rest1))
      found      == findNonEight(rest2)
      firstDiscardIdx == IF found = 0 THEN 1 ELSE found
      discardPile == <<rest2[firstDiscardIdx]>>
  IN [deck        |-> RemoveAt(rest2, firstDiscardIdx),
      discardPile |-> discardPile,
      playerHand  |-> playerHand,
      aiHand      |-> aiHand,
      currentTurn |-> "player",
      status      |-> "playing",
      winner      |-> NULL,
      activeSuit  |-> discardPile[1].suit]

\* whether topDiscard = discardPile[discardPile.length - 1] is defined
hasTopDiscard(gs) == Len(gs.discardPile) > 0

topDiscard(gs) == gs.discardPile[Len(gs.discardPile)]

\* isValidMove without the rank match
isValidMove_suitOnly(gs, card) ==
  IF card.rank = "8" THEN TRUE
  ELSE IF ~hasTopDiscard(gs) THEN FALSE
  ELSE card.suit = gs.activeSuit

isValidMove(gs, card) ==
  IF card.rank = "8" THEN TRUE
  ELSE IF ~hasTopDiscard(gs) THEN FALSE
  ELSE card.suit = gs.activeSuit \/ card.rank = topDiscard(gs).rank

\* checkWin(hand, turn): the state after its update, applied to prev
checkWin(prev, hand, turn) ==
  IF Len(hand) = 0
  THEN [prev EXCEPT !.status = "game_over", !.winner = turn]
  ELSE prev

\* handleDraw leaving the drawn card on the deck
drawCard_keepsDeck(gs) ==
  [gs EXCEPT !.playerHand = Append(gs.playerHand, gs.deck[Len(gs.deck)]),
             !.currentTurn = "ai"]

\* handleDraw taking the card at the other end of the deck
drawCard_shift(gs) ==
  [gs EXCEPT !.deck = SubSeq(gs.deck, 2, Len(gs.deck)),
             !.playerHand = Append(gs.playerHand, gs.deck[1]),
             !.currentTurn = "ai"]

\* handleDraw with a non-empty deck: the update of lines 228-236
drawCard(gs) ==
  LET newDeck   == SubSeq(gs.deck, 1, Len(gs.deck) - 1)
      drawnCard == gs.deck[Len(gs.deck)]
  IN [gs EXCEPT !.deck = newDeck,
                !.playerHand = Append(gs.playerHand, drawnCard),
                !.currentTurn = "ai"]

\* playCard without the isValidMove check
playCard_noValidation(gs, prev, card, isPlayer) ==
  IF FALSE THEN prev
  ELSE
    LET hand       == IF isPlayer THEN gs.playerHand ELSE gs.aiHand
        newHand    == withoutCard(hand, card)
        newDiscard == Append(gs.discardPile, card)
        withCards(p) ==
          IF isPlayer
          THEN [p EXCEPT !.discardPile = newDiscard, !.playerHand = newHand]
          ELSE [p EXCEPT !.discardPile = newDiscard, !.aiHand = newHand]
    IN IF card.rank = "8"
       THEN [withCards(prev) EXCEPT
               !.status = IF isPlayer THEN "suit_selection" ELSE @,
               !.activeSuit = IF isPlayer THEN @ ELSE NULL]
       ELSE
         LET turn     == IF isPlayer THEN "player" ELSE "ai"
             won      == Len(newHand) = 0
             afterWin == checkWin(prev, newHand, turn)
         IN IF ~won
            THEN [withCards(afterWin) EXCEPT
                    !.currentTurn = IF isPlayer THEN "ai" ELSE "player",
                    !.activeSuit = card.suit]
            ELSE withCards(afterWin)

\* playCard starting a new discard pile with the played card
playCard_replacesPile(gs, prev, card, isPlayer) ==
  IF ~isValidMove(gs, card) THEN prev
  ELSE
    LET hand       == IF isPlayer THEN gs.playerHand ELSE gs.aiHand
        newHand    == withoutCard(hand, card)
        newDiscard == <<card>>
        withCards(p) ==
          IF isPlayer
          THEN [p EXCEPT !.discardPile = newDiscard, !.playerHand = newHand]
          ELSE [p EXCEPT !.discardPile = newDiscard, !.aiHand = newHand]
    IN IF card.rank = "8"
       THEN [withCards(prev) EXCEPT
               !.status = IF isPlayer THEN "suit_selection" ELSE @,
               !.activeSuit = IF isPlayer THEN @ ELSE NULL]
       ELSE
         LET turn     == IF isPlayer THEN "player" ELSE "ai"
             won      == Len(newHand) = 0
             afterWin == checkWin(prev, newHand, turn)
         IN IF ~won
            THEN [withCards(afterWin) EXCEPT
                    !.currentTurn = IF isPlayer THEN "ai" ELSE "player",
                    !.activeSuit = card.suit]
            ELSE withCards(afterWin)

\* playCard(card, isPlayer): gs is the state of the render the handler
\* closes over, prev the state its updaters are applied to; the result is
\* the state after its updates
playCard(gs, prev, card, isPlayer) ==
  IF ~isValidMove(gs, card) THEN prev
  ELSE
    LET hand       == IF isPlayer THEN gs.playerHand ELSE gs.aiHand
        newHand    == withoutCard(hand, card)
        newDiscard == Append(gs.discardPile, card)
        withCards(p) ==
          IF isPlayer
          THEN [p EXCEPT !.discardPile = newDiscard, !.playerHand = newHand]
          ELSE [p EXCEPT !.discardPile = newDiscard, !.aiHand = newHand]
    IN IF card.rank = "8"
       THEN [withCards(prev) EXCEPT
               !.status = IF isPlayer THEN "suit_selection" ELSE @,
               !.activeSuit = IF isPlayer THEN @ ELSE NULL]
       ELSE
         LET turn     == IF isPlayer THEN "player" ELSE "ai"
             won      == Len(newHand) = 0
             afterWin == checkWin(prev, newHand, turn)
         IN IF ~won
            THEN [withCards(afterWin) EXCEPT
                    !.currentTurn = IF isPlayer THEN "ai" ELSE "player",
                    !.activeSuit = card.suit]
            ELSE withCards(afterWin)

\* handleSuitSelect(suit)
handleSuitSelect(gs, suit) ==
  [gs EXCEPT !.activeSuit = suit, !.status = "playing", !.currentTurn = "ai"]

\* suitCounts: the AI hand's cards per suit, the played card left out
suitCounts(hand, played) ==
  [s \in Suit |->
     Len(SelectSeq(hand, LAMBDA c : c.id # played.id /\ c.suit = s))]

\* keys.reduce((a, b) => suitCounts[a] > suitCounts[b] ? a : b), from key i on
RECURSIVE reduceBest(_, _, _)
reduceBest(counts, a, i) ==
  IF i > Len(SUITS) THEN a
  ELSE reduceBest(counts, IF counts[a] > counts[SUITS[i]] THEN a ELSE SUITS[i], i + 1)

bestSuit(hand, played) == reduceBest(suitCounts(hand, played), SUITS[1], 2)

\* the AI playing its first playable card whatever its rank
cardToPlay_first(playableCards) == playableCards[1]

\* the card the AI plays, given its playable cards (non-empty)
cardToPlay(playableCards) ==
  LET nonEightIdx == findNonEight(playableCards)
  IN IF nonEightIdx # 0 THEN playableCards[nonEightIdx] ELSE playableCards[1]

\* the AI playing its "8" without the win check
aiPlayEight_noWinCheck(gs, prev, card) ==
  [prev EXCEPT !.discardPile = Append(gs.discardPile, card),
               !.aiHand = withoutCard(gs.aiHand, card),
               !.activeSuit = bestSuit(gs.aiHand, card),
               !.currentTurn = "player"]

\* the AI playing its "8" through playCard, as it plays any other card
aiPlayEight_viaPlayCard(gs, prev, card) == playCard(gs, prev, card, FALSE)

\* the AI plays the "8" card: the state after the updates of lines 300-316
aiPlayEight(gs, prev, card) ==
  LET best       == bestSuit(gs.aiHand, card)
      newHand    == withoutCard(gs.aiHand, card)
      newDiscard == Append(gs.discardPile, card)
      afterWin   == checkWin(prev, newHand, "ai")
  IN [afterWin EXCEPT !.discardPile = newDiscard,
                      !.aiHand = newHand,
                      !.activeSuit = best,
                      !.currentTurn = "player"]

\* the body of the AI timer callback, which closes over the state gs of
\* the render that set the timer: the state after its updates to prev
aiTurn(gs, prev) ==
  LET playableCards == SelectSeq(gs.aiHand, LAMBDA c : isValidMove(gs, c))
  IN IF Len(playableCards) > 0
     THEN
       LET card == cardToPlay(playableCards)
       IN IF card.rank = "8"
          THEN aiPlayEight(gs, prev, card)
          ELSE playCard(gs, prev, card, FALSE)
     ELSE IF Len(gs.deck) > 0
          THEN [prev EXCEPT !.deck = SubSeq(gs.deck, 1, Len(gs.deck) - 1),
                            !.aiHand = Append(prev.aiHand, gs.deck[Len(gs.deck)]),
                            !.currentTurn = "player"]
          ELSE [prev EXCEPT !.currentTurn = "player"]

\* the hand and the pile disabled by the turn alone
disabled_turnOnly(gs) == gs.currentTurn # "player"

\* disabled={currentTurn !== 'player' || status !== 'playing'}: no onClick
disabled(gs) == gs.currentTurn # "player" \/ gs.status # "playing"

\* the guard of the AI effect
aiEffectGuard(gs) ==
  gs.currentTurn = "ai" /\ gs.status = "playing" /\ gs.winner = NULL

\* the dependency array without currentTurn
depsChanged_noTurn(old, new, fresh) ==
  \/ fresh
  \/ new.status # old.status
  \/ new.aiHand # old.aiHand
  \/ new.deck # old.deck

\* the dependencies of the AI effect differ between two renders; fresh
\* tells that the update built new arrays whatever their contents
depsChanged(old, new, fresh) ==
  \/ fresh
  \/ new.currentTurn # old.currentTurn
  \/ new.status # old.status
  \/ new.aiHand # old.aiHand
  \/ new.deck # old.deck

\* the AI effect without its cleanup: a timer once set stays set
aiEffect_noCleanup(old, new, timer, fresh) ==
  IF depsChanged(old, new, fresh) /\ aiEffectGuard(new)
  THEN [pending |-> TRUE, closure |-> new]
  ELSE timer

\* the AI effect after the render of state new that follows state old:
\* when a dependency changed, its cleanup clears the timer and, under the
\* guard, a new timer is set whose callback closes over new
aiEffect(old, new, timer, fresh) ==
  IF depsChanged(old, new, fresh)
  THEN IF aiEffectGuard(new)
       THEN [pending |-> TRUE, closure |-> new]
       ELSE NoTimer
  ELSE timer

(* ------------------------------ actions -------------------------------- *)

\* the mount effect and the restart buttons: initGame()
InitGameOf(ranks, n, maxOffset) ==
  \E seed \in ShuffleSeeds(Len(SUITS) * Len(ranks), maxOffset) :
    /\ gameState' = initGame(shuffleDeck(createDeck(ranks), seed), n)
    /\ aiTimer' = aiEffect(gameState, gameState', aiTimer, TRUE)
    /\ lastOp' = Op("initGame", 0, NULL)
    /\ UNCHANGED pendingSkips

InitGame == InitGameOf(DeckRanks, HandSize, MaxOffset)

\* initGame() as written: the 52 cards, 8 to each side
InitGameFull == InitGameOf(RANKS, DealSize, MaxFullOffset)

\* a click on a card of the player's hand
ClickCard ==
  \E i \in 1..Len(gameState.playerHand) :
    LET card == gameState.playerHand[i]
    IN /\ gameState' = IF disabled(gameState) THEN gameState
                        ELSE playCard(gameState, gameState, card, TRUE)
       /\ aiTimer' = aiEffect(gameState, gameState', aiTimer, FALSE)
       /\ lastOp' = Op("playCard", card.id, NULL)
       /\ UNCHANGED pendingSkips

\* a click on the draw pile
ClickDeck ==
  /\ lastOp' = Op("handleDraw", 0, NULL)
  /\ IF disabled(gameState)
     THEN UNCHANGED <<gameState, pendingSkips>>
     ELSE IF Len(gameState.deck) = 0
          THEN /\ pendingSkips < MaxPendingSkips
               /\ pendingSkips' = pendingSkips + 1
               /\ UNCHANGED gameState
          ELSE /\ gameState' = drawCard(gameState)
               /\ UNCHANGED pendingSkips
  /\ aiTimer' = aiEffect(gameState, gameState', aiTimer, FALSE)

\* a click in the SuitSelector, rendered only in suit_selection
ClickSuit ==
  /\ gameState.status = "suit_selection"
  /\ \E suit \in Suit :
       /\ gameState' = handleSuitSelect(gameState, suit)
       /\ lastOp' = Op("handleSuitSelect", 0, suit)
  /\ aiTimer' = aiEffect(gameState, gameState', aiTimer, FALSE)
  /\ UNCHANGED pendingSkips

\* the 1000 ms timer of an empty-deck draw fires
SkipTimer ==
  /\ pendingSkips > 0
  /\ pendingSkips' = pendingSkips - 1
  /\ gameState' = [gameState EXCEPT !.currentTurn = "ai"]
  /\ aiTimer' = aiEffect(gameState, gameState', aiTimer, FALSE)
  /\ lastOp' = Op("skipTimer", 0, NULL)

\* the 1500 ms timer of the AI effect fires and runs its callback on the
\* state it closed over; a 1000 ms timer that was pending when it was set
\* has fired before it, and none is set while it is pending
AiTimer ==
  /\ aiTimer.pending
  /\ pendingSkips = 0
  /\ gameState' = aiTurn(aiTimer.closure, gameState)
  /\ aiTimer' = aiEffect(gameState, gameState', NoTimer, FALSE)
  /\ lastOp' = Op("aiTimer", 0, NULL)
  /\ UNCHANGED pendingSkips

Next ==
  \/ InitGame
  \/ ClickCard
  \/ ClickDeck
  \/ ClickSuit
  \/ SkipTimer
  \/ AiTimer

Spec == Init /\ [][Next]_vars

\* the timers that are set fire: the callback of a setTimeout that is not
\* cleared runs once its delay has passed
SpecLive == Spec /\ WF_vars(SkipTimer) /\ WF_vars(AiTimer)

\* the cards played or drawn since the deal
moved(gs) ==
  LET total == Len(gs.deck) + Len(gs.discardPile)
               + Len(gs.playerHand) + Len(gs.aiHand)
  IN (Len(gs.discardPile) - 1) + ((total - 2 * DealSize - 1) - Len(gs.deck))

\* the game of the 52 cards, followed for MaxFullMoves moved cards after
\* each deal (the deck does not run out so early: no 1000 ms timer is set)
early == moved(gameState) < MaxFullMoves

NextFull ==
  \/ InitGameFull
  \/ early /\ ClickCard
  \/ early /\ ClickDeck
  \/ early /\ ClickSuit
  \/ early /\ AiTimer

SpecFull == Init /\ [][NextFull]_vars

\* isValidMove as a function of its inputs: any card, any active suit or
\* none, any top discard or none
InitValid ==
  /\ \E suit \in Suit \cup {NULL} :
       \E pile \in {<<>>} \cup {<<c>> : c \in Range(createDeck(DeckRanks))} :
         gameState = [InitialGameState EXCEPT !.discardPile = pile,
                                              !.activeSuit = suit]
  /\ pendingSkips = 0
  /\ aiTimer = NoTimer
  /\ lastOp = NoOp

CallIsValidMove ==
  \E c \in Range(createDeck(DeckRanks)) :
    /\ lastOp' = [Op("isValidMove", c.id, NULL) EXCEPT
                    !.ret = isValidMove(gameState, c)]
    /\ UNCHANGED <<gameState, pendingSkips, aiTimer>>

NextValid == CallIsValidMove

SpecValid == InitValid /\ [][NextValid]_vars

(* ------------------------------ claims --------------------------------- *)

started == gameState.status # "waiting"

piles(gs) == gs.deck \o gs.discardPile \o gs.playerHand \o gs.aiHand

cardOf(id) == CHOOSE c \in Range(piles(gameState)) : c.id = id

\* C1: after initialization the deck, the discard pile and the two hands
\* are pairwise disjoint and together hold every card of the deck exactly
\* once (4 * NumRanks cards here, the 52 of the full deck under SpecFull).
C1_CardConservation ==
  started =>
    LET all  == piles(gameState)
        full == IF Len(all) > Len(SUITS) * Len(DeckRanks)
                THEN createDeck(RANKS) ELSE createDeck(DeckRanks)
    IN /\ Len(all) = Len(full)
       /\ Range(all) = Range(full)
       /\ Cardinality({c.id : c \in Range(all)}) = Len(full)

\* cards have been played and every card of the deck has been drawn
C1_Witness ==
  /\ started
  /\ Len(gameState.deck) = 0
  /\ Len(gameState.discardPile) >= 3
  /\ Len(gameState.playerHand) > HandSize
  /\ lastOp.op = "aiTimer"

\* C2: a play that empties the acting side's hand (a hand is dealt
\* non-empty and only a play takes cards from it) sets status game_over and
\* winner to that side; after that no play or draw is accepted; so no state
\* has status playing or suit_selection with an emptied hand.
C2_WinDetection ==
  /\ [](gameState.status \in {"playing", "suit_selection"} =>
          /\ Len(gameState.playerHand) > 0
          /\ Len(gameState.aiHand) > 0)
  /\ [][(Len(gameState.playerHand) > 0 /\ Len(gameState'.playerHand) = 0 =>
            gameState'.status = "game_over" /\ gameState'.winner = "player")
        /\ (Len(gameState.aiHand) > 0 /\ Len(gameState'.aiHand) = 0 =>
              gameState'.status = "game_over" /\ gameState'.winner = "ai")
        /\ (gameState.status = "game_over"
              /\ lastOp'.op \in {"playCard", "handleDraw"} =>
              gameState' = gameState /\ pendingSkips' = pendingSkips)]_vars

\* C3: initGame, from any status, deals 8 cards to the player and 8 to the
\* AI, puts one card that is not an "8" on the discard pile and the other
\* 35 in the deck, sets activeSuit to that card's suit, the turn to the
\* player, status playing and no winner; the new state holds the 52 cards
\* of the new shuffle and nothing else.
C3_Restart ==
  lastOp.op = "initGame" =>
    /\ Len(gameState.playerHand) = 8
    /\ Len(gameState.aiHand) = 8
    /\ Len(gameState.discardPile) = 1
    /\ gameState.discardPile[1].rank # "8"
    /\ Len(gameState.deck) = 35
    /\ gameState.activeSuit = gameState.discardPile[1].suit
    /\ gameState.currentTurn = "player"
    /\ gameState.status = "playing"
    /\ gameState.winner = NULL
    /\ Range(piles(gameState)) = Range(createDeck(RANKS))
    /\ Cardinality(Range(piles(gameState))) = 52

\* a game was dealt in which the first card after the hands is an "8" and
\* the next card became the discard pile (the shuffle keeps id order here)
C3_Witness ==
  /\ lastOp.op = "initGame"
  /\ gameState.status = "playing"
  /\ Len(gameState.deck) = 35
  /\ gameState.deck[1].rank = "8"
  /\ gameState.discardPile[1].id = gameState.deck[1].id + 1
  /\ gameState.deck[2].id = gameState.deck[1].id + 2

\* a human play that playCard accepts: the click is enabled and the move valid
acceptedPlay ==
  /\ lastOp'.op = "playCard"
  /\ ~disabled(gameState)
  /\ isValidMove(gameState, cardOf(lastOp'.card))

\* C4: a human "8" played in status playing leads to suit_selection; until
\* the suit is chosen or the game restarted, status stays suit_selection,
\* currentTurn stays player and activeSuit keeps its value; choosing suit s
\* sets activeSuit = s, status = playing and currentTurn = ai in one step.
C4_WildProtocol ==
  [][/\ (acceptedPlay /\ cardOf(lastOp'.card).rank = "8") =>
          /\ gameState'.status = "suit_selection"
          /\ gameState'.currentTurn = "player"
          /\ gameState'.activeSuit = gameState.activeSuit
     /\ (gameState.status = "suit_selection"
            /\ lastOp'.op \notin {"initGame", "handleSuitSelect"}) =>
          /\ gameState'.status = "suit_selection"
          /\ gameState'.currentTurn = "player"
          /\ gameState'.activeSuit = gameState.activeSuit
     /\ lastOp'.op = "handleSuitSelect" =>
          /\ gameState'.activeSuit = lastOp'.suit
          /\ gameState'.status = "playing"
          /\ gameState'.currentTurn = "ai"]_vars

sameCards(g, h) ==
  /\ h.deck = g.deck
  /\ h.discardPile = g.discardPile
  /\ Len(h.playerHand) = Len(g.playerHand)
  /\ Len(h.aiHand) = Len(g.aiHand)

\* C5: a human draw from an empty deck draws no card and passes the turn
\* to the AI; from the request until the turn passes (restart aside) the
\* deck, the discard pile and both hand sizes stay as they were.
C5_EmptyDeckDraw ==
  [][/\ (lastOp'.op = "handleDraw" /\ ~disabled(gameState)
            /\ Len(gameState.deck) = 0) =>
          /\ gameState' = gameState
          /\ pendingSkips' = pendingSkips + 1
     /\ (pendingSkips > 0 /\ lastOp'.op # "initGame") =>
          sameCards(gameState, gameState')
     /\ lastOp'.op = "skipTimer" => gameState'.currentTurn = "ai"]_vars

\* C6: a human play of a card for which isValidMove is false, and a human
\* play or draw when currentTurn is not player or status is not playing,
\* leave every field of the game state unchanged.
C6_RejectedNoOp ==
  [][(\/ /\ lastOp'.op = "playCard"
          /\ \/ ~isValidMove(gameState, cardOf(lastOp'.card))
             \/ gameState.currentTurn # "player"
             \/ gameState.status # "playing"
      \/ /\ lastOp'.op = "handleDraw"
         /\ \/ gameState.currentTurn # "player"
            \/ gameState.status # "playing")
     => gameState' = gameState]_vars

\* the human clicked a card of their hand that is no valid move, on their turn
C6_Witness ==
  /\ lastOp.op = "playCard"
  /\ ~disabled(gameState)
  /\ \E c \in Range(gameState.playerHand) :
       c.id = lastOp.card /\ ~isValidMove(gameState, c)
  /\ \E c \in Range(gameState.playerHand) : isValidMove(gameState, c)

aiPlayed(g, h) == Len(h.aiHand) < Len(g.aiHand)

\* C8: after initialization (game_over included) activeSuit is the top
\* discard's suit when that card is no "8"; when it is an "8", activeSuit
\* is the suit chosen for it: the human's choice, or the AI's, and it stays
\* until the next play.
C8_ActiveSuitTracksPile ==
  /\ [](started /\ topDiscard(gameState).rank # "8"
          => gameState.activeSuit = topDiscard(gameState).suit)
  /\ [][(lastOp'.op = "handleSuitSelect" =>
            gameState'.activeSuit = lastOp'.suit)
        /\ ((lastOp'.op = "aiTimer" /\ aiPlayed(gameState, gameState')
               /\ topDiscard(gameState').rank = "8") =>
             gameState'.activeSuit =
               bestSuit(gameState.aiHand, topDiscard(gameState')))
        /\ ((started /\ topDiscard(gameState).rank = "8"
               /\ gameState.status # "suit_selection"
               /\ gameState'.discardPile = gameState.discardPile) =>
             gameState'.activeSuit = gameState.activeSuit)]_vars

\* C9: after initialization activeSuit is one of the four suits, never null.
C9_ActiveSuitNeverNull ==
  started => gameState.activeSuit \in Suit

\* the AI has played an "8": it won the game by playing it as its last card
C9_Witness ==
  /\ lastOp.op = "aiTimer"
  /\ gameState.status = "game_over"
  /\ gameState.winner = "ai"
  /\ topDiscard(gameState).rank = "8"
  /\ gameState.activeSuit \in Suit

\* C10: after initialization the discard pile is never empty, and within a
\* game a step either leaves it as it is or appends the card just played,
\* which every accepted play does.
C10_DiscardPileGrows ==
  /\ [](started => Len(gameState.discardPile) > 0)
  /\ [][lastOp'.op # "initGame" =>
          (/\ \/ gameState'.discardPile = gameState.discardPile
              \/ /\ lastOp'.op = "playCard"
                 /\ gameState'.discardPile =
                      Append(gameState.discardPile, cardOf(lastOp'.card))
                 /\ cardOf(lastOp'.card) \in Range(gameState.playerHand)
              \/ /\ lastOp'.op = "aiTimer"
                 /\ \E c \in Range(gameState.aiHand) :
                      gameState'.discardPile = Append(gameState.discardPile, c)
           /\ acceptedPlay =>
                gameState'.discardPile =
                  Append(gameState.discardPile, cardOf(lastOp'.card))
           /\ (lastOp'.op = "aiTimer" /\ aiPlayed(gameState, gameState')) =>
                \E c \in Range(gameState.aiHand) \ Range(gameState'.aiHand) :
                  gameState'.discardPile = Append(gameState.discardPile, c))]_vars

\* the human's play was appended to a pile that already held plays
C10_Witness ==
  /\ lastOp.op = "playCard"
  /\ Len(gameState.discardPile) >= 4
  /\ topDiscard(gameState).id = lastOp.card

\* C11: a delayed action scheduled before a restart changes no field of
\* the new game when it fires: a restart leaves no AI action pending, and a
\* timer that fires in the state the restart left (the human has not acted
\* in the new game, so it was scheduled before) leaves the game state as it
\* is, with currentTurn = player.
C11_StaleNoOp ==
  [][(lastOp'.op = "initGame" => ~aiTimer'.pending)
     /\ ((lastOp.op = "initGame" /\ lastOp'.op \in {"skipTimer", "aiTimer"}) =>
           (gameState' = gameState /\ gameState'.currentTurn = "player"))]_vars

\* the delayed actions that are pending: the turn passes of empty-deck
\* draws and the AI's scheduled action
delayedPending == pendingSkips + (IF aiTimer.pending THEN 1 ELSE 0)

\* C12: at most one delayed action is pending at any time, and while one
\* is pending a human play or draw is not accepted: it changes no field of
\* the game state and schedules nothing.
C12_Serialized ==
  /\ [](delayedPending <= 1)
  /\ [][(delayedPending > 0 /\ lastOp'.op \in {"playCard", "handleDraw"}) =>
          (gameState' = gameState /\ pendingSkips' = pendingSkips)]_vars

\* how many cards of hand have suit s
countOf(hand, s) == Cardinality({i \in 1..Len(hand) : hand[i].suit = s})

\* the AI timer has just played an "8"
aiPlayedEight ==
  /\ lastOp'.op = "aiTimer"
  /\ aiPlayed(gameState, gameState')
  /\ topDiscard(gameState').rank = "8"

\* C13: when the AI plays an "8", the suit it sets as activeSuit has the
\* maximal count among the cards left in its hand, and no suit before it in
\* the order hearts, diamonds, clubs, spades has that count.
C13_AiSuitChoice ==
  [][aiPlayedEight =>
       \E k \in 1..Len(SUITS) :
         /\ gameState'.activeSuit = SUITS[k]
         /\ \A j \in 1..Len(SUITS) :
              countOf(gameState'.aiHand, SUITS[j])
                <= countOf(gameState'.aiHand, SUITS[k])
         /\ \A j \in 1..(k - 1) :
              countOf(gameState'.aiHand, SUITS[j])
                < countOf(gameState'.aiHand, SUITS[k])]_vars

\* the least index of a non-empty set of indexes
firstOf(S) == CHOOSE i \in S : \A j \in S : i <= j

\* C14: on its action the AI plays a card exactly when its hand holds a
\* card for which isValidMove is true: the first such card that is no "8"
\* in hand order if there is one, otherwise the first such card; with none
\* it draws one card when the deck is non-empty, and otherwise passes the
\* turn with no card moving.
C14_AiCardChoice ==
  [][lastOp'.op = "aiTimer" =>
       LET hand     == gameState.aiHand
           playable == {i \in 1..Len(hand) : isValidMove(gameState, hand[i])}
           nonEight == {i \in playable : hand[i].rank # "8"}
       IN IF playable # {}
          THEN LET i == IF nonEight # {} THEN firstOf(nonEight)
                        ELSE firstOf(playable)
               IN /\ gameState'.discardPile =
                       Append(gameState.discardPile, hand[i])
                  /\ gameState'.aiHand = RemoveAt(hand, i)
                  /\ gameState'.deck = gameState.deck
                  /\ gameState'.playerHand = gameState.playerHand
          ELSE IF Len(gameState.deck) > 0
               THEN /\ gameState'.discardPile = gameState.discardPile
                    /\ Len(gameState'.aiHand) = Len(hand) + 1
                    /\ Len(gameState'.deck) = Len(gameState.deck) - 1
                    /\ gameState'.playerHand = gameState.playerHand
               ELSE gameState' = [gameState EXCEPT !.currentTurn = "player"]]_vars

\* the AI played a card that is no "8" while it held an "8", which is
\* always playable
C14_Witness ==
  /\ lastOp.op = "aiTimer"
  /\ topDiscard(gameState).rank # "8"
  /\ gameState.currentTurn = "player"
  /\ \E c \in Range(gameState.aiHand) : c.rank = "8"
  /\ \E c \in Range(gameState.aiHand) : c.rank # "8"

\* the state after side's draw of the deck's top (last) card from state g
afterDraw(g, side) ==
  LET top  == g.deck[Len(g.deck)]
      rest == SubSeq(g.deck, 1, Len(g.deck) - 1)
  IN IF side = "player"
     THEN [g EXCEPT !.deck = rest, !.playerHand = Append(g.playerHand, top),
                    !.currentTurn = "ai"]
     ELSE [g EXCEPT !.deck = rest, !.aiHand = Append(g.aiHand, top),
                    !.currentTurn = "player"]

\* C15: a draw from a non-empty deck, by the human on their turn or by the
\* AI when it has no playable card, moves the deck's last card to the end
\* of the acting side's hand, passes the turn to the other side and leaves
\* the discard pile, the other hand, status, winner and activeSuit as they
\* were (no win check).
C15_DrawTransition ==
  [][/\ (lastOp'.op = "handleDraw" /\ ~disabled(gameState)
            /\ Len(gameState.deck) > 0) =>
          gameState' = afterDraw(gameState, "player")
     /\ (lastOp'.op = "aiTimer" /\ Len(gameState.deck) > 0
            /\ \A c \in Range(gameState.aiHand) : ~isValidMove(gameState, c)) =>
          gameState' = afterDraw(gameState, "ai")]_vars

\* the AI has drawn (a hand grows by draws only): after its action it
\* holds more cards than were dealt
C15_Witness ==
  /\ lastOp.op = "aiTimer"
  /\ Len(gameState.aiHand) > HandSize
  /\ gameState.currentTurn = "player"
  /\ gameState.status = "playing"

\* C16: when the AI plays an "8", one step moves the card from its hand to
\* the discard pile, sets activeSuit to a suit with the maximal count in
\* the hand it keeps, ends the game with winner ai when that hand is empty
\* and otherwise passes the turn to the player with status playing; no AI
\* action sets status suit_selection, which is entered only by a human
\* play of an "8".
C16_AiWildAtomic ==
  [][/\ aiPlayedEight =>
          /\ \E c \in Range(gameState.aiHand) :
               /\ c.rank = "8"
               /\ gameState'.discardPile = Append(gameState.discardPile, c)
               /\ gameState'.aiHand = withoutCard(gameState.aiHand, c)
          /\ gameState'.activeSuit \in Suit
          /\ \A t \in Suit :
               countOf(gameState'.aiHand, t)
                 <= countOf(gameState'.aiHand, gameState'.activeSuit)
          /\ IF Len(gameState'.aiHand) = 0
             THEN gameState'.status = "game_over" /\ gameState'.winner = "ai"
             ELSE /\ gameState'.status = "playing"
                  /\ gameState'.winner = NULL
                  /\ gameState'.currentTurn = "player"
     /\ lastOp'.op = "aiTimer" => gameState'.status # "suit_selection"
     /\ (gameState'.status = "suit_selection"
            /\ gameState.status # "suit_selection") =>
          /\ lastOp'.op = "playCard"
          /\ cardOf(lastOp'.card).rank = "8"
          /\ cardOf(lastOp'.card) \in Range(gameState.playerHand)]_vars

\* the AI played an "8", chose another suit than the card's and kept cards
C16_Witness ==
  /\ lastOp.op = "aiTimer"
  /\ topDiscard(gameState).rank = "8"
  /\ gameState.activeSuit # topDiscard(gameState).suit
  /\ Len(gameState.aiHand) > 0
  /\ gameState.status = "playing"
  /\ gameState.currentTurn = "player"

\* C17: once status is game_over, every step but a restart (a human play,
\* draw or suit choice, an AI action, a timer callback) leaves every field
\* of the game state as it is.
C17_GameOverFrozen ==
  [][(gameState.status = "game_over" /\ lastOp'.op # "initGame") =>
       gameState' = gameState]_vars

\* C18: a step that is no restart changes status only from playing to
\* suit_selection, from suit_selection to playing or from playing to
\* game_over (waiting is left by the first initGame only); a restart sets
\* status playing; a suit choice is applied only in status suit_selection.
C18_StatusTransitions ==
  [][/\ (lastOp'.op # "initGame" /\ gameState'.status # gameState.status) =>
          <<gameState.status, gameState'.status>> \in
            {<<"waiting", "playing">>, <<"playing", "suit_selection">>,
             <<"suit_selection", "playing">>, <<"playing", "game_over">>}
     /\ lastOp'.op = "initGame" => gameState'.status = "playing"
     /\ gameState.status = "waiting" =>
          (gameState'.status = "waiting" \/ lastOp'.op = "initGame")
     /\ lastOp'.op = "handleSuitSelect" =>
          gameState.status = "suit_selection"]_vars

\* the human's suit choice has just brought status back to playing
C18_Witness ==
  /\ lastOp.op = "handleSuitSelect"
  /\ gameState.status = "playing"
  /\ gameState.currentTurn = "ai"
  /\ topDiscard(gameState).rank = "8"
  /\ gameState.activeSuit # topDiscard(gameState).suit

\* C19: the AI's timer callback is applied only in a state with
\* currentTurn = ai, status = playing and winner = null, and the deck, the
\* hands, the discard pile and activeSuit it closed over are those of that
\* state.
C19_AiGuard ==
  [][lastOp'.op = "aiTimer" =>
       /\ gameState.currentTurn = "ai"
       /\ gameState.status = "playing"
       /\ gameState.winner = NULL
       /\ aiTimer.closure.deck = gameState.deck
       /\ aiTimer.closure.aiHand = gameState.aiHand
       /\ aiTimer.closure.playerHand = gameState.playerHand
       /\ aiTimer.closure.discardPile = gameState.discardPile
       /\ aiTimer.closure.activeSuit = gameState.activeSuit]_vars

\* the AI has acted: its timer fired and none is pending, cards were
\* played and the human is to move
C19_Witness ==
  /\ lastOp.op = "aiTimer"
  /\ ~aiTimer.pending
  /\ gameState.currentTurn = "player"
  /\ gameState.status = "playing"
  /\ Len(gameState.discardPile) >= 3

\* C20: status is game_over exactly when winner is not null, and when
\* winner is set the winner's hand is empty and the other hand is not.
C20_WinnerConsistent ==
  /\ (gameState.status = "game_over" <=> gameState.winner # NULL)
  /\ gameState.winner = "player" =>
       (Len(gameState.playerHand) = 0 /\ Len(gameState.aiHand) > 0)
  /\ gameState.winner = "ai" =>
       (Len(gameState.aiHand) = 0 /\ Len(gameState.playerHand) > 0)

\* C21: the timers firing, every state with currentTurn = ai, status =
\* playing and winner = null is followed by a state with currentTurn =
\* player or status = game_over: the game does not stay on the AI's turn.
C21_AiTurnEnds ==
  (gameState.currentTurn = "ai" /\ gameState.status = "playing"
     /\ gameState.winner = NULL)
    ~> (gameState.currentTurn = "player" \/ gameState.status = "game_over")

\* the AI's turn has ended with the deck empty and no playable card left
\* in its hand, the case in which it passes the turn with no card moving
C21_Witness ==
  /\ lastOp.op = "aiTimer"
  /\ gameState.currentTurn = "player"
  /\ gameState.status = "playing"
  /\ Len(gameState.deck) = 0
  /\ Len(gameState.aiHand) > 0
  /\ \A c \in Range(gameState.aiHand) : ~isValidMove(gameState, c)

====
